---- MODULE Spec2Model ----
\* A model of scripts/gen_version_notes.py: the generator of per-symbol version
\* notes from the OpenCL XML registry.
\*
\* Text is modelled as a sequence of atoms (pieces of text). Identifiers that
\* the program slices (added_in[0:3]) are spelled character by character;
\* comments are spelled from the atoms "deprecated", "in", "OpenCL", " " and a
\* few others, none of which overlaps the marker phrase, so a substring search
\* for the marker on the text is a search for its atoms.
EXTENDS Integers, Sequences, FiniteSets, TLC

\* ------------------------------------------------------------------ bounds

\* The registries explored hold at most this many containers.
MaxContainers == 2

\* ------------------------------------------------------------ text helpers

\* Python's None; an optional value v is <<v>>.
None == <<>>

Some(v) == <<v>>

Min(a, b) == IF a < b THEN a ELSE b

Max(a, b) == IF a > b THEN a ELSE b

\* A Python slice bound i on a sequence of length n, clamped into 0..n.
PyIndex(i, n) == IF i < 0 THEN Max(0, n + i) ELSE Min(i, n)

\* Python's s[lo:hi].
PySlice(s, lo, hi) ==
    SubSeq(s, PyIndex(lo, Len(s)) + 1, PyIndex(hi, Len(s)))

\* Python's text.split(sep) for a one-atom separator: always at least one word.
RECURSIVE SplitFrom(_, _, _)
SplitFrom(text, sep, word) ==
    IF text = <<>> THEN <<word>>
    ELSE IF Head(text) = sep
         THEN <<word>> \o SplitFrom(Tail(text), sep, <<>>)
         ELSE SplitFrom(Tail(text), sep, Append(word, Head(text)))

Split(text, sep) == SplitFrom(text, sep, <<>>)

\* Python's sep.join(words).
RECURSIVE Join(_, _)
Join(sep, words) ==
    IF words = <<>> THEN <<>>
    ELSE IF Len(words) = 1 THEN Head(words)
    ELSE Head(words) \o <<sep>> \o Join(sep, Tail(words))

\* Python's `needle in text`.
Contains(text, needle) ==
    \E k \in 0..(Len(text) - Len(needle)) :
        SubSeq(text, k + 1, k + Len(needle)) = needle

\* "deprecated in OpenCL"
Marker == <<"deprecated", " ", "in", " ", "OpenCL">>

\* ------------------------------------------------------------ the notes

GetHeader ==
    << "// Copyright 2017-2023 The Khronos Group. This work is licensed under a\n",
       "// Creative Commons Attribution 4.0 International License; see\n",
       "// http://creativecommons.org/licenses/by/4.0/\n" >>

GetFooter == << "\n" >>

V10 == <<"1", ".", "0">>

ClPrefix == <<"c", "l", "_">>

FullNote(name, added_in, deprecated_by) ==
    IF added_in = V10
    THEN IF deprecated_by = None
         THEN <<"\n// Intentionally empty, ">> \o name \o <<" has always been present.">>
         ELSE <<"\nIMPORTANT: {">> \o name
              \o <<"} is <<unified-spec, deprecated by>> version ">>
              \o deprecated_by[1] \o <<".">>
    ELSE IF PySlice(added_in, 0, 3) # ClPrefix
    THEN IF deprecated_by = None
         THEN <<"\nIMPORTANT: {">> \o name
              \o <<"} is <<unified-spec, missing before>> version ">>
              \o added_in \o <<".">>
         ELSE <<"\nIMPORTANT: {">> \o name
              \o <<"} is <<unified-spec, missing before>> version ">>
              \o added_in
              \o <<" and <<unified-spec, deprecated by>> version ">>
              \o deprecated_by[1] \o <<".">>
    ELSE <<"\nIMPORTANT: ">> \o name \o <<" requires ">> \o added_in \o <<".">>

\* A faulty ShortNote that compares added_in[0:2] with 'cl_'.
ShortNoteShortPrefix(name, added_in, deprecated_by) ==
    IF added_in = V10
    THEN <<"// Intentionally empty, ">> \o name \o <<" has always been present.">>
    ELSE IF PySlice(added_in, 0, 2) # ClPrefix
    THEN <<"<<unified-spec, Missing before>> version ">> \o added_in \o <<".">>
    ELSE name \o <<" requires ">> \o added_in \o <<".">>

ShortNote(name, added_in, deprecated_by) ==
    IF added_in = V10
    THEN IF deprecated_by = None
         THEN <<"// Intentionally empty, ">> \o name \o <<" has always been present.">>
         ELSE <<"<<unified-spec, Deprecated by>> version ">>
              \o deprecated_by[1] \o <<".">>
    ELSE IF PySlice(added_in, 0, 3) # ClPrefix
    THEN IF deprecated_by = None
         THEN <<"<<unified-spec, Missing before>> version ">> \o added_in \o <<".">>
         ELSE <<"<<unified-spec, Missing before>> version ">> \o added_in
              \o <<" and <<unified-spec, deprecated by>> version ">>
              \o deprecated_by[1] \o <<".">>
    ELSE name \o <<" requires ">> \o added_in \o <<".">>

\* The note_printer argument of the two calls of process_xml.
NotePrinter(entry_type, name, added_in, deprecated_by) ==
    IF entry_type = "command"
    THEN FullNote(name, added_in, deprecated_by)
    ELSE ShortNote(name, added_in, deprecated_by)

\* ------------------------------------------------------------ the registry

\* The registry (cl.xml) is the sequence of the root's <feature> and
\* <extension> elements. A container is [tag, number, name, require]; require
\* is the sequence of its <require> groups, each [comment, children] with an
\* optional comment attribute; a child is [tag, name], tag "command" or "enum".

\* A faulty order of the outer loop: extensions before features.
ExtensionsFirst == <<"extension", "feature">>

\* for feature_type in [ 'feature', 'extension' ]
FeatureTypes == <<"feature", "extension">>

\* A faulty search that looks at the first child of a group only.
FirstChildOfType(children, entry_type) ==
    IF children # <<>> /\ Head(children).tag = entry_type
    THEN <<Head(children)>> ELSE <<>>

\* The children of one <require> group that are <entry_type> elements.
RECURSIVE ChildrenOfType(_, _)
ChildrenOfType(children, entry_type) ==
    IF children = <<>> THEN <<>>
    ELSE IF Head(children).tag = entry_type
         THEN <<Head(children)>> \o ChildrenOfType(Tail(children), entry_type)
         ELSE ChildrenOfType(Tail(children), entry_type)

\* feature.findall('.//entry_type'): the entries of a container, document order.
RECURSIVE GroupEntries(_, _)
GroupEntries(require, entry_type) ==
    IF require = <<>> THEN <<>>
    ELSE ChildrenOfType(Head(require).children, entry_type)
         \o GroupEntries(Tail(require), entry_type)

FindEntries(feature, entry_type) == GroupEntries(feature.require, entry_type)

\* A faulty selection that ignores the container's tag.
SelectedAnyTag(feature, feature_type, entry_type) ==
    \E g \in 1..Len(feature.require) :
        \E c \in 1..Len(feature.require[g].children) :
            feature.require[g].children[c].tag = entry_type

\* The path './/feature_type/require/entry_type/../..' selects a container once
\* when it has a <require> child with an <entry_type> child.
Selected(feature, feature_type, entry_type) ==
    /\ feature.tag = feature_type
    /\ \E g \in 1..Len(feature.require) :
           \E c \in 1..Len(feature.require[g].children) :
               feature.require[g].children[c].tag = entry_type

\* spec.findall('.//feature_type/require/entry_type/../..'), document order.
RECURSIVE FindContainers(_, _, _)
FindContainers(registry, feature_type, entry_type) ==
    IF registry = <<>> THEN <<>>
    ELSE IF Selected(Head(registry), feature_type, entry_type)
         THEN <<Head(registry)>> \o FindContainers(Tail(registry), feature_type, entry_type)
         ELSE FindContainers(Tail(registry), feature_type, entry_type)

\* A <require comment=...> group with an <entry_type name=name> child.
IsCategory(group, entry_type, name) ==
    /\ group.comment # None
    /\ \E c \in 1..Len(group.children) :
           /\ group.children[c].tag = entry_type
           /\ group.children[c].name = name

RECURSIVE CategoriesIn(_, _, _)
CategoriesIn(require, entry_type, name) ==
    IF require = <<>> THEN <<>>
    ELSE IF IsCategory(Head(require), entry_type, name)
         THEN <<Head(require)>> \o CategoriesIn(Tail(require), entry_type, name)
         ELSE CategoriesIn(Tail(require), entry_type, name)

\* spec.findall('.//require[@comment]/entry_type[@name="name"]/..'): every
\* commented group of the registry holding the symbol, each once, document order.
RECURSIVE FindCategories(_, _, _)
FindCategories(registry, entry_type, name) ==
    IF registry = <<>> THEN <<>>
    ELSE CategoriesIn(Head(registry).require, entry_type, name)
         \o FindCategories(Tail(registry), entry_type, name)

\* The loop without its second assert.
NoTwiceCheck(deprecated_by) == TRUE

\* assert deprecated_by == None  # Can't deprecate something twice.
AssertOnce(deprecated_by) == deprecated_by = None

\* The loop without its first assert.
NoFormatCheck(words) == TRUE

\* assert " ".join(words[-4:-1]) == "deprecated in OpenCL"
AssertFormat(words) == Join(" ", PySlice(words, -4, -1)) = Marker

\* A faulty index: words[-2].
PenultimateWord(words) == words[Len(words) - 1]

\* deprecated_by = words[-1]
LastWord(words) == words[Len(words)]

\* The loop over the categories of one symbol. The result is the value of
\* deprecated_by after the loop, or the assertion that failed.
RECURSIVE Classify(_, _)
Classify(categories, deprecated_by) ==
    IF categories = <<>> THEN [failed |-> "", deprecated_by |-> deprecated_by]
    ELSE LET comment == Head(categories).comment[1]
             words   == Split(comment, " ")
         IN  IF Contains(comment, Marker)
             THEN IF ~AssertFormat(words)
                  THEN [failed |-> "format", deprecated_by |-> deprecated_by]
                  ELSE IF ~AssertOnce(deprecated_by)
                  THEN [failed |-> "twice", deprecated_by |-> deprecated_by]
                  ELSE Classify(Tail(categories), Some(LastWord(words)))
             ELSE Classify(Tail(categories), deprecated_by)

\* The visits of one process_xml pass, in order: one per entry of each selected
\* container, all features before all extensions.
RECURSIVE VisitsOf(_, _, _)
VisitsOf(features, feature_type, entry_type) ==
    IF features = <<>> THEN <<>>
    ELSE LET feature == Head(features)
             entries == FindEntries(feature, entry_type)
         IN  [k \in 1..Len(entries) |->
                 [feature_type |-> feature_type, feature |-> feature,
                  name |-> entries[k].name]]
             \o VisitsOf(Tail(features), feature_type, entry_type)

RECURSIVE VisitsFor(_, _, _)
VisitsFor(feature_types, registry, entry_type) ==
    IF feature_types = <<>> THEN <<>>
    ELSE VisitsOf(FindContainers(registry, Head(feature_types), entry_type),
                  Head(feature_types), entry_type)
         \o VisitsFor(Tail(feature_types), registry, entry_type)

Visits(registry, entry_type) == VisitsFor(FeatureTypes, registry, entry_type)

\* os.path.join(args.directory, name + ".asciidoc") with the default directory.
VersionFileName(name) == <<".", "/">> \o name \o <<".asciidoc">>

\* A faulty open(versionFileName, 'a'): the data is added to the file.
AppendFile(fs, file, data) ==
    [f \in DOMAIN fs \cup {file} |->
        IF f = file THEN (IF file \in DOMAIN fs THEN fs[file] ELSE <<>>) \o data
        ELSE fs[f]]

\* open(versionFileName, 'w') and the three writes: the file holds exactly this.
WriteFile(fs, file, data) ==
    [f \in DOMAIN fs \cup {file} |-> IF f = file THEN data ELSE fs[f]]

\* ------------------------------------------------------------ the inputs

NameA == <<"clFoo">>

NameB == <<"CL_BAR">>

Names == {NameA, NameB}

Kinds == {"command", "enum"}

V20 == <<"2", ".", "0">>

ExtCl == <<"c", "l", "_", "k", "h", "r">>

ExtOther == <<"k", "h", "r">>

FeatureHead(number) ==
    [tag |-> "feature", number |-> number, name |-> <<"CL_VERSION">>]

ExtensionHead(name) == [tag |-> "extension", number |-> <<>>, name |-> name]

\* "enums deprecated in OpenCL 3.0"
CommentGood == <<"enums", " ">> \o Marker \o <<" ", "3.0">>

\* "deprecated in OpenCL 3.0 only": the phrase is not at the end
CommentBad == Marker \o <<" ", "3.0", " ", "only">>

\* "deprecated in OpenCL 1.2": exactly four words
CommentFour == Marker \o <<" ", "1.2">>

\* "deprecated in OpenCL": no version follows
CommentThree == Marker

\* "undeprecated in OpenCL 3.0": the phrase starts inside a word
CommentGlued == <<"un">> \o Marker \o <<" ", "3.0">>

Group(comment, children) == [comment |-> comment, children |-> children]

Container(head, require) ==
    [tag |-> head.tag, number |-> head.number, name |-> head.name,
     require |-> require]

Entry(tag, name) == [tag |-> tag, name |-> name]

\* The containers the registries are built from. First every container of one
\* group and one entry over three heads, two comments and three entries; then
\* containers for an extension name without the cl_ prefix, malformed
\* deprecation comments, a second deprecating version, a group of two entries,
\* a feature of two groups, and an extension naming a symbol twice.
Catalogue ==
    {Container(h, <<Group(c, <<e>>)>>) :
        h \in {FeatureHead(V10), FeatureHead(V20), ExtensionHead(ExtCl)},
        c \in {None, Some(CommentGood)},
        e \in {Entry("enum", NameA), Entry("enum", NameB), Entry("command", NameA)}}
    \cup
    { Container(FeatureHead(V10), <<Group(Some(CommentBad), <<Entry("enum", NameA)>>)>>),
      Container(ExtensionHead(ExtCl), <<Group(Some(CommentBad), <<Entry("enum", NameA)>>)>>),
      Container(FeatureHead(V20), <<Group(Some(CommentThree), <<Entry("enum", NameB)>>)>>),
      Container(FeatureHead(V10), <<Group(Some(CommentGlued), <<Entry("enum", NameB)>>)>>),
      Container(FeatureHead(V20), <<Group(Some(CommentFour), <<Entry("command", NameA)>>)>>),
      Container(ExtensionHead(ExtOther), <<Group(None, <<Entry("enum", NameA)>>)>>),
      Container(ExtensionHead(ExtOther), <<Group(None, <<Entry("command", NameA)>>)>>),
      Container(FeatureHead(V10),
                <<Group(Some(CommentGood), <<Entry("enum", NameA), Entry("enum", NameB)>>)>>),
      Container(FeatureHead(V10),
                <<Group(None, <<Entry("enum", NameA)>>),
                  Group(Some(CommentGood), <<Entry("enum", NameA)>>)>>),
      Container(ExtensionHead(ExtCl),
                <<Group(None, <<Entry("enum", NameA), Entry("enum", NameA)>>)>>) }

\* The registries explored: one to MaxContainers containers of the catalogue.
Registries == UNION {[1..n -> Catalogue] : n \in 1..MaxContainers}

\* A file of the output directory that no symbol names.
OtherFile == <<".", "/", "README">>

Stale == <<"stale">>

\* The output directory before the first run: a stale note for one symbol, no
\* file for the other, and an unrelated file.
InitialFiles ==
    [f \in {VersionFileName(NameA), OtherFile} |-> Stale]

\* ------------------------------------------------------------ the program

VARIABLES
    spec,                       \* the parsed registry
    files,                      \* the output directory: file name -> content
    before,                     \* the directory as the current run found it
    second,                     \* this is the second run on the same directory
    entry_type,                 \* the pass: process_xml's entry_type
    pc,                         \* "loop", "done" or "aborted"
    i,                          \* visits of this pass already made
    seen_apis,
    numberOfEntries,
    numberOfNewEntries,
    numberOfDeprecatedEntries,
    stdout,                     \* the lines printed by this run
    trace                       \* history: what each visit of this run did

vars == <<spec, files, before, second, entry_type, pc, i, seen_apis,
          numberOfEntries, numberOfNewEntries, numberOfDeprecatedEntries,
          stdout, trace>>

\* print('Generating version notes from: ' + specpath)
Banner == <<[text |-> "Generating version notes from: "]>>

StartRun ==
    /\ entry_type = "command"
    /\ pc = "loop"
    /\ i = 0
    /\ seen_apis = {}
    /\ numberOfEntries = 0
    /\ numberOfNewEntries = 0
    /\ numberOfDeprecatedEntries = 0
    /\ stdout = Banner
    /\ trace = <<>>

Init ==
    /\ spec \in Registries
    /\ files = InitialFiles
    /\ before = InitialFiles
    /\ second = FALSE
    /\ StartRun

\* The visit the loops are about to make, <<visit>>, or <<>> when the loops
\* have ended or the process has.
Pending ==
    LET visits == Visits(spec, entry_type)
    IN  IF pc = "loop" /\ i < Len(visits) THEN <<visits[i + 1]>> ELSE <<>>

\* The history's record of the visit being made: where it is made and what it does.
Event(visit, op, added_in, deprecated_by, data) ==
    [entry_type |-> entry_type, k |-> i + 1, name |-> visit.name,
     feature_type |-> visit.feature_type,
     feature |-> [number |-> visit.feature.number, name |-> visit.feature.name],
     op |-> op, added_in |-> added_in, deprecated_by |-> deprecated_by,
     data |-> data]

\* A faulty test that never finds the name.
NeverSeen(name, seen) == FALSE

\* name in seen_apis
AlreadySeen(name, seen) == name \in seen

\* A faulty increment that counts every written entry as new.
CountAsNew(added_in) == 1

\* numberOfNewEntries += 0 if added_in == "1.0" else 1
NewIncrement(added_in) == IF added_in = V10 THEN 0 ELSE 1

\* numberOfDeprecatedEntries += 0 if deprecated_by == None else 1
DeprecatedIncrement(deprecated_by) == IF deprecated_by = None THEN 0 ELSE 1

\* Lines 120-129: record the name, write the file, count.
WriteNote(visit, added_in, deprecated_by) ==
    LET name == visit.name
        data == GetHeader \o NotePrinter(entry_type, name, added_in, deprecated_by)
                \o GetFooter
    IN  /\ seen_apis' = seen_apis \cup {name}
        /\ files' = WriteFile(files, VersionFileName(name), data)
        /\ numberOfNewEntries' = numberOfNewEntries + NewIncrement(added_in)
        /\ numberOfDeprecatedEntries' =
               numberOfDeprecatedEntries + DeprecatedIncrement(deprecated_by)
        /\ trace' = Append(trace, Event(visit, "write", added_in, deprecated_by, data))

\* One iteration of the inner loop for an entry of a feature, no assertion failing.
ProcessFeatureEntry ==
    /\ Pending # <<>>
    /\ LET visit  == Pending[1]
           result == Classify(FindCategories(spec, entry_type, visit.name), None)
       IN  /\ visit.feature_type = "feature"
           /\ result.failed = ""
           /\ WriteNote(visit, visit.feature.number, result.deprecated_by)
    /\ numberOfEntries' = numberOfEntries + 1
    /\ i' = i + 1
    /\ UNCHANGED <<spec, before, second, entry_type, pc, stdout>>

\* One iteration for an entry of a feature in which an assert fails: the
\* AssertionError ends the process.
AssertionFailure ==
    /\ Pending # <<>>
    /\ LET visit  == Pending[1]
           result == Classify(FindCategories(spec, entry_type, visit.name), None)
       IN  /\ visit.feature_type = "feature"
           /\ result.failed # ""
           /\ trace' = Append(trace, Event(visit, "abort", <<>>, result.deprecated_by,
                                           <<result.failed>>))
    /\ numberOfEntries' = numberOfEntries + 1
    /\ pc' = "aborted"
    /\ UNCHANGED <<spec, files, before, second, entry_type, i, seen_apis,
                   numberOfNewEntries, numberOfDeprecatedEntries, stdout>>

\* One iteration for an entry of an extension whose name was seen: two lines of
\* warning and `continue`.
SkipExtensionEntry ==
    /\ Pending # <<>>
    /\ LET visit == Pending[1]
       IN  /\ visit.feature_type # "feature"
           /\ AlreadySeen(visit.name, seen_apis)
           /\ stdout' = stdout \o
                  << [text |-> "WARNING: exists as both a core version and extension API in the XML",
                      name |-> visit.name],
                     [text |-> "This is not currently handled correctly - only the core version dependency is noted"] >>
           /\ trace' = Append(trace, Event(visit, "skip", <<>>, None, <<>>))
    /\ numberOfEntries' = numberOfEntries + 1
    /\ i' = i + 1
    /\ UNCHANGED <<spec, files, before, second, entry_type, pc, seen_apis,
                   numberOfNewEntries, numberOfDeprecatedEntries>>

\* One iteration for an entry of an extension whose name was not seen.
ProcessExtensionEntry ==
    /\ Pending # <<>>
    /\ LET visit == Pending[1]
       IN  /\ visit.feature_type # "feature"
           /\ ~AlreadySeen(visit.name, seen_apis)
           /\ WriteNote(visit, visit.feature.name, None)
    /\ numberOfEntries' = numberOfEntries + 1
    /\ i' = i + 1
    /\ UNCHANGED <<spec, before, second, entry_type, pc, stdout>>

\* The loops of a pass are over: the summary line; after the "command" pass
\* the "enum" pass starts with fresh counters and a fresh seen_apis.
PrintSummary ==
    /\ pc = "loop"
    /\ i = Len(Visits(spec, entry_type))
    /\ stdout' = Append(stdout,
           [text |-> "Found", entry_type |-> entry_type, n |-> numberOfEntries,
            m |-> numberOfNewEntries, k |-> numberOfDeprecatedEntries])
    /\ IF entry_type = "command"
       THEN /\ entry_type' = "enum"
            /\ i' = 0
            /\ seen_apis' = {}
            /\ numberOfEntries' = 0
            /\ numberOfNewEntries' = 0
            /\ numberOfDeprecatedEntries' = 0
            /\ pc' = pc
       ELSE /\ pc' = "done"
            /\ UNCHANGED <<entry_type, i, seen_apis, numberOfEntries,
                           numberOfNewEntries, numberOfDeprecatedEntries>>
    /\ UNCHANGED <<spec, files, before, second, trace>>

\* The generator is run a second time, same registry, same output directory.
RunAgain ==
    /\ pc \in {"done", "aborted"}
    /\ ~second
    /\ second' = TRUE
    /\ before' = files
    /\ entry_type' = "command"
    /\ pc' = "loop"
    /\ i' = 0
    /\ seen_apis' = {}
    /\ numberOfEntries' = 0
    /\ numberOfNewEntries' = 0
    /\ numberOfDeprecatedEntries' = 0
    /\ stdout' = Banner
    /\ trace' = <<>>
    /\ UNCHANGED <<spec, files>>

Next ==
    \/ ProcessFeatureEntry
    \/ AssertionFailure
    \/ SkipExtensionEntry
    \/ ProcessExtensionEntry
    \/ PrintSummary
    \/ RunAgain

Spec == Init /\ [][Next]_vars

\* ------------------------------------------------------------ the claims

\* The visit that event e of the history records: its feature_type and the
\* number and name of its container.
VisitOf(e) == e

\* The events of the history that satisfy Test, in order.
EventsWhere(Test(_)) == SelectSeq(trace, Test)

\* The history of the pass in progress.
PassEvents == EventsWhere(LAMBDA e : e.entry_type = entry_type)

\* The writes of name's file made by the pass in progress.
PassWrites(name) ==
    EventsWhere(LAMBDA e : e.entry_type = entry_type /\ e.op = "write" /\ e.name = name)

\* The loops of the pass in progress have ended; the summary is not yet printed.
AtPassEnd == pc = "loop" /\ i = Len(Visits(spec, entry_type))

\* The positions k of Visits(spec, entry_type) that visit name.
VisitsTo(kind, name) ==
    LET visits == Visits(spec, kind)
    IN  {k \in 1..Len(visits) : visits[k].name = name}

FeatureVisitsTo(kind, name) ==
    LET visits == Visits(spec, kind)
    IN  {k \in 1..Len(visits) :
            visits[k].name = name /\ visits[k].feature_type = "feature"}

\* The containers of the registry that hold an entry <kind name=name>.
ContainersOf(kind, name) ==
    {c \in 1..Len(spec) :
        \E g \in 1..Len(spec[c].require) :
            \E x \in 1..Len(spec[c].require[g].children) :
                spec[c].require[g].children[x] = Entry(kind, name)}

\* The attribute of its container that a visit takes added_in from.
AddedInOf(visit) ==
    IF visit.feature_type = "feature" THEN visit.feature.number ELSE visit.feature.name

SmallestOf(S) == CHOOSE k \in S : \A j \in S : k <= j

\* The lines of stdout that warn about name.
WarningsAbout(name) ==
    SelectSeq(stdout, LAMBDA l : "name" \in DOMAIN l /\ l.name = name)

SkipsOf(name) == EventsWhere(LAMBDA e : e.op = "skip" /\ e.name = name)

\* What C1 says of one name once the loops of a pass have ended.
OneWriteFromFirst(name) ==
    LET first == SmallestOf(VisitsTo(entry_type, name))
        ws    == PassWrites(name)
    IN  /\ Len(ws) = 1
        /\ ws[1].k = first
        /\ ws[1].added_in = AddedInOf(Visits(spec, entry_type)[first])
        /\ ws[1].data = GetHeader
                        \o NotePrinter(entry_type, name, ws[1].added_in, ws[1].deprecated_by)
                        \o GetFooter
        /\ Len(SelectSeq(PassEvents, LAMBDA e : e.op = "skip" /\ e.name = name))
               = Cardinality(VisitsTo(entry_type, name)) - 1
        /\ Len(WarningsAbout(name)) = Len(SkipsOf(name))

\* C1 as stated: at the end of a pass, every name that occurs in two or more
\* containers was written exactly once, from the first container visited, with
\* one warning for each later occurrence.
C1_Original ==
    AtPassEnd =>
        \A name \in Names :
            Cardinality(ContainersOf(entry_type, name)) >= 2 => OneWriteFromFirst(name)

\* C1 (amended): at the end of a pass, every name that occurs in two or more
\* containers and is visited at most once through a feature was written exactly
\* once, with the note of the first container visited (features first, then
\* extensions, each in registry order), and one warning was printed for each
\* later occurrence.
C1_OneWritePerName ==
    AtPassEnd =>
        \A name \in Names :
            ( /\ Cardinality(ContainersOf(entry_type, name)) >= 2
              /\ Cardinality(FeatureVisitsTo(entry_type, name)) <= 1 )
            => OneWriteFromFirst(name)

C1_Witness ==
    /\ AtPassEnd
    /\ \E name \in Names :
           /\ Cardinality(ContainersOf(entry_type, name)) >= 2
           /\ Cardinality(FeatureVisitsTo(entry_type, name)) <= 1
           /\ Len(WarningsAbout(name)) >= 1
           /\ Len(PassWrites(name)) = 1

ExtensionVisitsTo(kind, name) ==
    LET visits == Visits(spec, kind)
    IN  {k \in 1..Len(visits) :
            visits[k].name = name /\ visits[k].feature_type # "feature"}

\* C2: within a pass no feature is visited right after an extension, so none
\* is visited after one; every visit
\* through an extension of a name that a feature also holds is skipped with a
\* warning, writes nothing and does not abort; and when the loops of the pass
\* end the file of such a name holds a note written from a feature, its
\* added_in being that feature's number and not the extension's name.
C2_FeaturePathWins ==
    /\ \A a \in 1..(Len(trace) - 1) :
           ( /\ trace[a].entry_type = trace[a + 1].entry_type
             /\ VisitOf(trace[a + 1]).feature_type = "feature" )
           => VisitOf(trace[a]).feature_type = "feature"
    /\ \A x \in 1..Len(trace) :
           LET e == trace[x]
           IN  ( /\ VisitOf(e).feature_type = "extension"
                 /\ FeatureVisitsTo(e.entry_type, e.name) # {} )
               => /\ e.op = "skip"
                  /\ Len(WarningsAbout(e.name)) >= 1
                  /\ (x = Len(trace) => pc # "aborted")
    /\ AtPassEnd =>
           \A name \in Names :
               LET visits == Visits(spec, entry_type)
               IN
               ( /\ FeatureVisitsTo(entry_type, name) # {}
                 /\ ExtensionVisitsTo(entry_type, name) # {} )
               => \E x \in 1..Len(PassWrites(name)) :
                      LET w == PassWrites(name)[x]
                      IN  /\ files[VersionFileName(name)] = w.data
                          /\ w.data = GetHeader
                                 \o NotePrinter(entry_type, name, w.added_in, w.deprecated_by)
                                 \o GetFooter
                          /\ \E k \in FeatureVisitsTo(entry_type, name) :
                                 w.added_in = visits[k].feature.number
                          /\ \A k \in ExtensionVisitsTo(entry_type, name) :
                                 w.added_in # visits[k].feature.name

C2_Witness ==
    /\ AtPassEnd
    /\ \E name \in Names :
           /\ FeatureVisitsTo(entry_type, name) # {}
           /\ ExtensionVisitsTo(entry_type, name) # {}
           /\ Len(SelectSeq(PassEvents, LAMBDA e : e.op = "skip" /\ e.name = name)) >= 1
           /\ Len(PassWrites(name)) >= 1

\* The times name's file was opened for writing in this run.
WritesOf(name) == EventsWhere(LAMBDA e : e.op = "write" /\ e.name = name)

\* The positions <<container, group>> of the registry's require groups.
GroupPositions ==
    UNION {{<<c, g>> : g \in 1..Len(spec[c].require)} : c \in 1..Len(spec)}

\* The places <<container, group, child>> of the entries <kind name=name>
\* inside the registry's containers with the given tag.
Occurrences(tag, kind, name) ==
    {q \in UNION {{<<p[1], p[2], x>> :
                      x \in 1..Len(spec[p[1]].require[p[2]].children)} :
                  p \in GroupPositions} :
        /\ spec[q[1]].tag = tag
        /\ spec[q[1]].require[q[2]].children[q[3]] = Entry(kind, name)}

\* The writes of name's file that a complete pass makes, given the numbers of
\* the name's occurrences inside features and inside extensions.
WritesDue(features, extensions) ==
    IF features > 0 THEN features ELSE IF extensions > 0 THEN 1 ELSE 0

\* C3 as stated: in a run every output file is opened for writing at most once.
C3_Original == \A name \in Names : Len(WritesOf(name)) <= 1

\* C3 (amended): in a run the file of a name is opened for writing, in each
\* pass, once per occurrence of the name inside feature containers, or once
\* when the name occurs inside extension containers only; so it is opened at
\* most once when the name is of one kind only and occurs at most once inside
\* feature containers.
C3_WritesPerName ==
    \A name \in Names :
        LET features   == [kind \in Kinds |->
                              Cardinality(Occurrences("feature", kind, name))]
            extensions == [kind \in Kinds |->
                              Cardinality(Occurrences("extension", kind, name))]
            due        == WritesDue(features["command"], extensions["command"])
                          + WritesDue(features["enum"], extensions["enum"])
            writes     == Len(WritesOf(name))
        IN  /\ writes <= due
            /\ pc = "done" => writes = due
            /\ writes > 1 =>
                   \/ \A kind \in Kinds : features[kind] + extensions[kind] > 0
                   \/ \E kind \in Kinds : features[kind] > 1

C3_Witness ==
    /\ pc = "done"
    /\ \E name \in Names :
           /\ VisitsTo("command", name) = {}
           /\ Cardinality(VisitsTo("enum", name)) >= 2
           /\ Len(WritesOf(name)) = 1

\* The commented require groups, anywhere in the registry, that hold the entry
\* <kind name=name> and whose comment contains "deprecated in OpenCL".
MarkedGroups(kind, name) ==
    {p \in GroupPositions :
        LET group == spec[p[1]].require[p[2]]
        IN  /\ group.comment # None
            /\ \E x \in 1..Len(group.children) : group.children[x] = Entry(kind, name)
            /\ Contains(group.comment[1], Marker)}

\* Every file holds what the last write of this run put in it, or what the run
\* found when it did not write it; no other file exists.
ContentAsWritten ==
    /\ DOMAIN files =
           DOMAIN before \cup {VersionFileName(trace[x].name) :
                                  x \in {y \in 1..Len(trace) : trace[y].op = "write"}}
    /\ \A f \in DOMAIN files :
           LET ws == EventsWhere(LAMBDA e : e.op = "write" /\ VersionFileName(e.name) = f)
           IN  files[f] = IF ws = <<>> THEN before[f] ELSE ws[Len(ws)].data

SummaryPrinted(kind) ==
    \E x \in 1..Len(stdout) :
        "entry_type" \in DOMAIN stdout[x] /\ stdout[x].entry_type = kind

\* C4: a visit through a feature of a symbol that two or more commented require
\* groups mark "deprecated in OpenCL" ends the run with an assertion failure:
\* the visit writes no file, it is the last visit made, no summary line is
\* printed for its pass, and the files keep what the earlier visits wrote.
C4_DeprecatedTwiceAborts ==
    \A x \in 1..Len(trace) :
        LET e == trace[x]
        IN  ( /\ VisitOf(e).feature_type = "feature"
              /\ Cardinality(MarkedGroups(e.entry_type, e.name)) >= 2 )
            => /\ e.op = "abort"
               /\ x = Len(trace)
               /\ pc = "aborted"
               /\ entry_type = e.entry_type
               /\ ~SummaryPrinted(e.entry_type)
               /\ ContentAsWritten

C4_Witness ==
    /\ pc = "aborted"
    /\ Len(trace) >= 2
    /\ trace[Len(trace)].data = <<"twice">>
    /\ Cardinality(MarkedGroups(entry_type, trace[Len(trace)].name)) >= 2
    /\ trace[1].op = "write"
    /\ files[VersionFileName(trace[1].name)] = trace[1].data

\* The comment text ends with "deprecated in OpenCL " and then the token: the
\* phrase starts the text or follows a space, and the token holds no space.
EndsWithDeprecation(comment, token) ==
    LET tail == Marker \o <<" ">> \o token
        lead == Len(comment) - Len(tail)
    IN  /\ \A x \in 1..Len(token) : token[x] # " "
        /\ lead >= 0
        /\ SubSeq(comment, lead + 1, Len(comment)) = tail
        /\ (lead > 0 => comment[lead] = " ")

\* The candidates for the trailing token of a comment: its suffixes.
Suffixes(comment) == {SubSeq(comment, x, Len(comment)) : x \in 1..(Len(comment) + 1)}

WellFormed(comment) == \E token \in Suffixes(comment) : EndsWithDeprecation(comment, token)

\* The (group, token) pairs of the commented groups holding <kind name=name>
\* whose comment ends with "deprecated in OpenCL <token>".
Deprecations(kind, name) ==
    {d \in UNION {{<<p[1], p[2], t>> :
                      t \in IF spec[p[1]].require[p[2]].comment = None THEN {}
                            ELSE Suffixes(spec[p[1]].require[p[2]].comment[1])} :
                  p \in GroupPositions} :
        LET group == spec[d[1]].require[d[2]]
        IN  /\ \E x \in 1..Len(group.children) : group.children[x] = Entry(kind, name)
            /\ EndsWithDeprecation(group.comment[1], d[3])}

\* The note of a symbol of version 1.0 deprecated by version token.
DeprecatedByNote(kind, name, token) ==
    IF kind = "enum"
    THEN <<"<<unified-spec, Deprecated by>> version ">> \o token \o <<".">>
    ELSE <<"\nIMPORTANT: {">> \o name
         \o <<"} is <<unified-spec, deprecated by>> version ">> \o token \o <<".">>

OnlyInVersion10(kind, name) ==
    LET visits == Visits(spec, kind)
    IN  \A k \in 1..Len(visits) :
            visits[k].name = name =>
                /\ visits[k].feature_type = "feature"
                /\ visits[k].feature.number = V10

\* C5: every write for a symbol that occurs only inside features numbered
\* "1.0" and has exactly one commented require group whose comment ends with
\* "deprecated in OpenCL Y" passes Y as deprecated_by and writes the
\* "deprecated by version Y" note, without a "missing before" clause: the short
\* form for an enum, the IMPORTANT form for a command.
C5_DeprecatedByTrailingToken ==
    \A x \in 1..Len(trace) :
        LET e == trace[x]
            deprecations == Deprecations(e.entry_type, e.name)
        IN  ( /\ e.op = "write"
              /\ OnlyInVersion10(e.entry_type, e.name)
              /\ Cardinality(deprecations) = 1 )
            => \A d \in deprecations :
                   /\ e.deprecated_by = Some(d[3])
                   /\ e.data = GetHeader \o DeprecatedByNote(e.entry_type, e.name, d[3])
                               \o GetFooter

C5_Witness ==
    \E x \in 1..Len(trace) :
        /\ trace[x].op = "write"
        /\ trace[x].entry_type = "enum"
        /\ OnlyInVersion10("enum", trace[x].name)
        /\ Cardinality(Deprecations("enum", trace[x].name)) = 1
        /\ files[VersionFileName(trace[x].name)] = trace[x].data

\* The note of a symbol that an extension adds.
RequiresNote(kind, name, extension) ==
    IF kind = "enum"
    THEN name \o <<" requires ">> \o extension \o <<".">>
    ELSE <<"\nIMPORTANT: ">> \o name \o <<" requires ">> \o extension \o <<".">>

WrittenFromExtension(e) == e.op = "write" /\ VisitOf(e).feature_type = "extension"

\* C6 as stated: every file written from an extension holds the "<name>
\* requires <extension name>" note, whatever the extension's name.
C6_Original ==
    \A x \in 1..Len(trace) :
        WrittenFromExtension(trace[x]) =>
            trace[x].data = GetHeader
                \o RequiresNote(trace[x].entry_type, trace[x].name,
                                VisitOf(trace[x]).feature.name)
                \o GetFooter

\* C6 (amended): every file written from an extension whose name starts with
\* "cl_" holds the "<name> requires <extension name>" note with the name
\* verbatim, and every write from an extension passes no deprecated_by,
\* whatever "deprecated in OpenCL" comments the symbol's require groups carry.
C6_ExtensionNote ==
    \A x \in 1..Len(trace) :
        WrittenFromExtension(trace[x]) =>
            /\ trace[x].deprecated_by = None
            /\ trace[x].added_in = VisitOf(trace[x]).feature.name
            /\ SubSeq(VisitOf(trace[x]).feature.name, 1, 3) = <<"c", "l", "_">>
               => trace[x].data = GetHeader
                      \o RequiresNote(trace[x].entry_type, trace[x].name,
                                      VisitOf(trace[x]).feature.name)
                      \o GetFooter

C6_Witness ==
    \E x \in 1..Len(trace) :
        /\ WrittenFromExtension(trace[x])
        /\ SubSeq(VisitOf(trace[x]).feature.name, 1, 3) = <<"c", "l", "_">>
        /\ MarkedGroups(trace[x].entry_type, trace[x].name) # {}
        /\ files[VersionFileName(trace[x].name)] = trace[x].data

\* The names of the command and enum entries inside the registry's containers.
NamesInRegistry ==
    UNION {UNION {{spec[c].require[g].children[x].name :
                      x \in 1..Len(spec[c].require[g].children)} :
                  g \in 1..Len(spec[c].require)} :
           c \in 1..Len(spec)}

\* C7: when a run has completed both passes, the files written by the run are
\* the files of the names of the registry's entries, each of them exists, and
\* every other file of the directory is as the run found it.
C7_FilesAreTheNames ==
    pc = "done" =>
        LET written == {VersionFileName(trace[x].name) :
                           x \in {y \in 1..Len(trace) : trace[y].op = "write"}}
            named   == {VersionFileName(name) : name \in NamesInRegistry}
        IN  /\ written = named
            /\ named \subseteq DOMAIN files
            /\ DOMAIN files = DOMAIN before \cup named
            /\ \A f \in DOMAIN files \ named : files[f] = before[f]
            /\ \A f \in named : \E x \in 1..Len(trace) :
                   /\ trace[x].op = "write"
                   /\ VersionFileName(trace[x].name) = f
                   /\ files[f] = trace[x].data

C7_Witness ==
    /\ pc = "done"
    /\ ~second
    /\ Cardinality(NamesInRegistry) = 2
    /\ files[OtherFile] = Stale
    /\ \A name \in NamesInRegistry : files[VersionFileName(name)] # Stale

\* The visits the pass in progress has made so far.
Visited == {k \in 1..Len(Visits(spec, entry_type)) : k <= Len(PassEvents)}

\* C8 as stated: when the loops of a pass end, N counts the visits made, M
\* those of them whose added_in (the feature's number, the extension's name) is
\* not "1.0", and K those with a deprecated_by.
C8_Original ==
    AtPassEnd =>
        /\ numberOfEntries = Cardinality(Visited)
        /\ LET visits == Visits(spec, entry_type)
           IN  numberOfNewEntries =
                   Cardinality({k \in Visited : AddedInOf(visits[k]) # V10})
        /\ numberOfDeprecatedEntries =
               Cardinality({k \in 1..Len(PassEvents) : PassEvents[k].deprecated_by # None})

\* C8 (amended): in every state N is the number of visits the pass has made,
\* skipped duplicates and an aborted visit included; M is the number of the
\* visits that wrote a file with an added_in other than "1.0", and K the number
\* of the visits that wrote a file with a deprecated_by; so M <= N and K <= N,
\* and the summary line of a pass reports these three numbers.
C8_Counters ==
    /\ numberOfEntries = Len(PassEvents)
    /\ numberOfNewEntries =
           Cardinality({k \in 1..Len(PassEvents) :
                           PassEvents[k].op = "write" /\ PassEvents[k].added_in # V10})
    /\ numberOfDeprecatedEntries =
           Cardinality({k \in 1..Len(PassEvents) :
                           PassEvents[k].op = "write" /\ PassEvents[k].deprecated_by # None})
    /\ numberOfNewEntries <= numberOfEntries
    /\ numberOfDeprecatedEntries <= numberOfEntries
    /\ \A x \in 1..Len(stdout) :
           "entry_type" \in DOMAIN stdout[x] =>
               LET of == EventsWhere(LAMBDA e : e.entry_type = stdout[x].entry_type)
               IN  /\ stdout[x].n = Len(Visits(spec, stdout[x].entry_type))
                   /\ stdout[x].n = Len(of)
                   /\ stdout[x].m = Cardinality({k \in 1..Len(of) :
                          of[k].op = "write" /\ of[k].added_in # V10})
                   /\ stdout[x].k = Cardinality({k \in 1..Len(of) :
                          of[k].op = "write" /\ of[k].deprecated_by # None})

C8_Witness ==
    /\ AtPassEnd
    /\ numberOfEntries = 2
    /\ numberOfNewEntries = 0
    /\ numberOfDeprecatedEntries = 1
    /\ PassEvents[2].op = "skip"

\* C9: when the second run on the same registry and directory ends, every file
\* holds what it held after the first run; and in every state each file written
\* by the run holds exactly the data of its last write, the files not written
\* being as the run found them.
C9_SecondRunChangesNothing ==
    /\ ContentAsWritten
    /\ (second /\ pc \in {"done", "aborted"}) => files = before

C9_Witness ==
    /\ second
    /\ pc = "done"
    /\ Len(trace) >= 2
    /\ before # InitialFiles
    /\ files = before

\* A commented group holding <kind name=name> whose comment contains
\* "deprecated in OpenCL" without ending in "deprecated in OpenCL <token>".
MalformedGroups(kind, name) ==
    {p \in MarkedGroups(kind, name) : ~WellFormed(spec[p[1]].require[p[2]].comment[1])}

\* C10: a visit through a feature of a symbol with a commented require group
\* whose comment contains "deprecated in OpenCL" but does not end with
\* "deprecated in OpenCL <token>" ends the run with an assertion failure and
\* writes no file, also when no other group deprecates the symbol.
C10_MalformedCommentAborts ==
    \A x \in 1..Len(trace) :
        LET e == trace[x]
        IN  ( /\ VisitOf(e).feature_type = "feature"
              /\ MalformedGroups(e.entry_type, e.name) # {} )
            => /\ e.op = "abort"
               /\ x = Len(trace)
               /\ pc = "aborted"
               /\ ContentAsWritten

C10_Witness ==
    /\ pc = "aborted"
    /\ trace # <<>>
    /\ trace[Len(trace)].data = <<"format">>
    /\ Cardinality(MarkedGroups(entry_type, trace[Len(trace)].name)) = 1
    /\ Cardinality(MalformedGroups(entry_type, trace[Len(trace)].name)) = 1

====
